---- MODULE Spec2Model ----
(***************************************************************************)
(* The restaurant simulation of src/src/restaurant.ts: tables of fixed     *)
(* capacity, persons with a sampled dining time, a FIFO waiting queue of   *)
(* parties and the time-stepped eviction/admission loop of Restaurant.     *)
(***************************************************************************)
EXTENDS Integers, Sequences, FiniteSets, TLC

(***************************************************************************)
(* Bounds of the model.                                                    *)
(***************************************************************************)
\* currentTime is explored up to this clock value
MaxTime == 3
\* at most this many calls of addToWaitingQueue in one run
MaxArrivals == 3

(***************************************************************************)
(* Inputs.                                                                 *)
(***************************************************************************)
Persons == {"p1", "p2", "p3", "p4"}

\* an unset sitting_at_table and a find() that found nothing: no table position
undefined == 0

\* actualDiningTime of each person, as sampled at construction
DiningConfigs ==
  { [p \in Persons |-> CASE p = "p1" -> 1 [] p = "p2" -> 3 [] p = "p3" -> 2 [] OTHER -> 3] }

\* the runs explored: the capacities of the restaurant's table list, in list
\* order, with the member lists of the parties the callers of that run
\* construct: parties of distinct persons (over two table lists); parties
\* sharing a member or naming one person twice; the empty party and a party
\* larger than every table
Scenes ==
  { [capacity |-> <<2, 1>>, pool |-> { <<"p1">>, <<"p4">>, <<"p2", "p3">> }],
    [capacity |-> <<1, 2>>, pool |-> { <<"p1">>, <<"p4">>, <<"p2", "p3">> }],
    [capacity |-> <<2, 2>>, pool |-> { <<"p1", "p2">>, <<"p2", "p3">>, <<"p3", "p3">> }],
    [capacity |-> <<1, 2>>, pool |-> { <<>>, <<"p1", "p2", "p3">>, <<"p4">> }] }

\* the persons that clients seat and unseat by calling Table and Person directly
DirectPersons == {"p1", "p4"}

\* time steps a careless client may pass: negative, zero, positive
AnyTimeSteps == {0 - 1, 0, 1}

\* Randomizer.float() returns a sample u / Grid of [0, 1), u in 0..Grid-1, and
\* interpolated durations are counted in units of 1 / Grid
Grid == 4

\* the capacities a client may pass to new Table
Capacities == {0 - 1, 0, 1, 2}

\* the member lists a client may pass to new Party
MemberLists == {<<>>, <<"p1">>, <<"p2", "p3">>, <<"p3", "p3">>}

TimeSteps == {1, 2}

\* the durations runSimulation is called with
Durations == {0, 2, MaxTime}

VARIABLES
  capacity,          \* Table.capacity, by position in Restaurant.tables
  patrons,           \* Table.patrons, by position in Restaurant.tables
  sitting_at_table,  \* Person.sitting_at_table (a table position or undefined)
  actualDiningTime,  \* Person.actualDiningTime
  pool,              \* Party.members of the parties constructed in this run
  waitingQueue,      \* Restaurant.waitingQueue; each party carries its arrival number
  currentTime,       \* Restaurant.currentTime
  running,           \* the runSimulation call in progress, if any
  arrivalCount,      \* number of addToWaitingQueue calls so far
  seatedSince,       \* clock value at which each seated person sat down, else -1
  last,              \* what the last operation did (its observable outcome)
  made,              \* the object the client constructed last (new DiningTime, ...)
  twin,              \* a second Restaurant, fed what the first is fed
  tally              \* main's loop variable and totalPatronsServed, with the parties
                     \* enqueued and the persons evicted so far in the run

vars == <<capacity, patrons, sitting_at_table, actualDiningTime, pool, waitingQueue,
          currentTime, running, arrivalCount, seatedSince, last, made, twin, tally>>

Tables == DOMAIN capacity

RangeOf(seq) == {seq[i] : i \in DOMAIN seq}

\* Party.getSize
getSize(party) == Len(party.members)

(***************************************************************************)
(* The program state the operations below transform, as one record; the    *)
(* fields who/table/arg hold its arguments (the persons and the table it   *)
(* is about) and thrown/returned/evicted/departed/admitted its outcome.    *)
(***************************************************************************)
Here ==
  [patrons |-> patrons, sitting |-> sitting_at_table, queue |-> waitingQueue,
   time |-> currentTime, since |-> seatedSince,
   thrown |-> "", returned |-> "void", who |-> <<>>, table |-> undefined, arg |-> 0,
   evicted |-> {}, departed |-> {}, admitted |-> <<>>]

\* addPatron without the capacity test
addPatron_noCapacityTest(s, t, person) ==
  [s EXCEPT !.patrons[t] = Append(@, person), !.returned = "true"]

\* addPatron with <= for < in the capacity test
addPatron_offByOne(s, t, person) ==
  IF Len(s.patrons[t]) <= capacity[t]
    THEN [s EXCEPT !.patrons[t] = Append(@, person), !.returned = "true"]
    ELSE [s EXCEPT !.returned = "false"]

\* Table.addPatron: push when below capacity, report whether it did
addPatron(s, t, person) ==
  IF Len(s.patrons[t]) < capacity[t]
    THEN [s EXCEPT !.patrons[t] = Append(@, person), !.returned = "true"]
    ELSE [s EXCEPT !.returned = "false"]

\* leaveTable that forgets to clear the reference
leaveTable_keepsReference(s, person, t) ==
  IF s.sitting[person] = t
    THEN [s EXCEPT !.departed = @ \cup {person}]
    ELSE s

\* Person.leaveTable: clears the reference only when it is that table
leaveTable(s, person, t) ==
  IF s.sitting[person] = t
    THEN [s EXCEPT !.sitting[person] = undefined, !.since[person] = -1,
                   !.departed = @ \cup {person}]
    ELSE s

\* the forEach of Table.emptyTable, from occupant i on
RECURSIVE leaveAll(_, _, _)
leaveAll(s, t, i) ==
  IF i > Len(s.patrons[t]) THEN s
  ELSE leaveAll(leaveTable(s, s.patrons[t][i], t), t, i + 1)

\* Table.emptyTable
emptyTable(s, t) ==
  [leaveAll(s, t, 1) EXCEPT !.patrons[t] = <<>>]

\* sitDown without the already-sitting guard
sitDown_noSittingGuard(s, person, t) ==
  LET a == addPatron(s, t, person)
  IN  IF a.returned = "false"
        THEN [s EXCEPT !.thrown = "table full"]
        ELSE [a EXCEPT !.sitting[person] = t, !.since[person] = s.time,
                       !.returned = "void"]

\* sitDown that tests the seated-at reference only after addPatron
sitDown_guardAfterPush(s, person, t) ==
  LET a == addPatron(s, t, person)
  IN  IF a.returned = "false"
        THEN [s EXCEPT !.thrown = "table full"]
        ELSE IF s.sitting[person] # undefined
               THEN [a EXCEPT !.thrown = "already sitting"]
               ELSE [a EXCEPT !.sitting[person] = t, !.since[person] = s.time,
                              !.returned = "void"]

\* Person.sitDown
sitDown(s, person, t) ==
  IF s.sitting[person] # undefined
    THEN [s EXCEPT !.thrown = "already sitting"]
    ELSE LET a == addPatron(s, t, person)
         IN  IF a.returned = "false"
               THEN [s EXCEPT !.thrown = "table full"]
               ELSE [a EXCEPT !.sitting[person] = t, !.since[person] = s.time,
                              !.returned = "void"]

\* addToWaitingQueue that puts the party at the head (unshift for push)
addToWaitingQueue_unshift(s, party) ==
  [s EXCEPT !.queue = <<party>> \o @]

\* Restaurant.addToWaitingQueue: push at the tail
addToWaitingQueue(s, party) ==
  [s EXCEPT !.queue = Append(@, party)]

\* findAvailableTable that accepts a table with enough free seats left
findAvailableTable_sharesTable(pat, partySize) ==
  LET ok == {t \in Tables : Len(pat[t]) + partySize <= capacity[t]}
  IN  IF ok = {} THEN undefined ELSE CHOOSE t \in ok : \A u \in ok : t <= u

\* findAvailableTable without the capacity test: the first empty table
findAvailableTable_ignoresCapacity(pat, partySize) ==
  LET ok == {t \in Tables : Len(pat[t]) = 0}
  IN  IF ok = {} THEN undefined ELSE CHOOSE t \in ok : \A u \in ok : t <= u

\* findAvailableTable choosing the tightest capacity (best fit)
findAvailableTable_bestFit(pat, partySize) ==
  LET ok == {t \in Tables : Len(pat[t]) = 0 /\ capacity[t] >= partySize}
  IN  IF ok = {} THEN undefined
      ELSE CHOOSE t \in ok : \A u \in ok :
             capacity[t] < capacity[u] \/ (capacity[t] = capacity[u] /\ t <= u)

\* Restaurant.findAvailableTable: Array.find, the first match in list order
findAvailableTable(pat, partySize) ==
  LET ok == {t \in Tables : Len(pat[t]) = 0 /\ capacity[t] >= partySize}
  IN  IF ok = {} THEN undefined ELSE CHOOSE t \in ok : \A u \in ok : t <= u

\* the for loop of seatParty stopping one member short (i < length - 1)
RECURSIVE seatMembers_offByOne(_, _, _, _)
seatMembers_offByOne(s, members, t, i) ==
  IF i >= Len(members) THEN [s EXCEPT !.returned = "true"]
  ELSE LET n == sitDown(s, members[i], t)
       IN  IF n.thrown # "" THEN n ELSE seatMembers_offByOne(n, members, t, i + 1)

\* the for loop of Restaurant.seatParty, from member i on
RECURSIVE seatMembers(_, _, _, _)
seatMembers(s, members, t, i) ==
  IF i > Len(members) THEN [s EXCEPT !.returned = "true"]
  ELSE LET n == sitDown(s, members[i], t)
       IN  IF n.thrown # "" THEN n ELSE seatMembers(n, members, t, i + 1)

\* Restaurant.seatParty
seatParty(s, party) ==
  LET t == findAvailableTable(s.patrons, getSize(party))
  IN  IF t = undefined THEN [s EXCEPT !.returned = "false"]
      ELSE seatMembers(s, party.members, t, 1)

\* the dining time of whichever occupant comes first by name
maxDiningTime_byName(occupants) ==
  actualDiningTime[CHOOSE p \in RangeOf(occupants) : TRUE]

\* Math.min for Math.max
maxDiningTime_min(occupants) ==
  CHOOSE m \in {actualDiningTime[p] : p \in RangeOf(occupants)} :
    \A p \in RangeOf(occupants) : actualDiningTime[p] >= m

\* Math.max over the occupants' actualDiningTime
maxDiningTime(occupants) ==
  CHOOSE m \in {actualDiningTime[p] : p \in RangeOf(occupants)} :
    \A p \in RangeOf(occupants) : actualDiningTime[p] <= m

\* the eviction loop of Restaurant.simulateStep, from table i on
RECURSIVE evictLoop(_, _)
evictLoop(s, i) ==
  IF i > Len(capacity) THEN s
  ELSE IF Len(s.patrons[i]) > 0 /\ s.time >= maxDiningTime(s.patrons[i])
         THEN evictLoop([emptyTable(s, i) EXCEPT !.evicted = @ \cup {i}], i + 1)
         ELSE evictLoop(s, i + 1)

\* an admission loop that passes over a party it cannot seat: from queue
\* position i on
RECURSIVE admitFrom(_, _)
admitFrom(s, i) ==
  IF i > Len(s.queue) THEN [s EXCEPT !.returned = "void"]
  ELSE LET party == s.queue[i]
           t == findAvailableTable(s.patrons, getSize(party))
       IN  IF t # undefined
             THEN LET removed == [s EXCEPT !.queue = SubSeq(@, 1, i - 1) \o SubSeq(@, i + 1, Len(@)),
                                     !.admitted = Append(@, t)]
                      n == seatParty(removed, party)
                  IN  IF n.thrown # "" THEN n ELSE admitFrom(n, i)
             ELSE admitFrom(s, i + 1)

\* an admission loop that drops a head party it cannot seat
RECURSIVE admitLoop_dropsBlocked(_)
admitLoop_dropsBlocked(s) ==
  IF Len(s.queue) = 0 THEN [s EXCEPT !.returned = "void"]
  ELSE LET nextParty == Head(s.queue)
           t == findAvailableTable(s.patrons, getSize(nextParty))
       IN  IF t # undefined
             THEN LET shifted == [s EXCEPT !.queue = Tail(@),
                                     !.admitted = Append(@, t)]
                      n == seatParty(shifted, nextParty)
                  IN  IF n.thrown # "" THEN n ELSE admitLoop_dropsBlocked(n)
             ELSE admitLoop_dropsBlocked([s EXCEPT !.queue = Tail(@)])

\* an admission that seats at most the party at the head (if for while)
admitLoop_once(s) ==
  IF Len(s.queue) = 0 THEN [s EXCEPT !.returned = "void"]
  ELSE LET nextParty == Head(s.queue)
           t == findAvailableTable(s.patrons, getSize(nextParty))
       IN  IF t # undefined
             THEN seatParty([s EXCEPT !.queue = Tail(@),
                                      !.admitted = Append(@, t)], nextParty)
             ELSE [s EXCEPT !.returned = "void"]

\* the admission loop without head-of-line blocking
admitLoop_skipsBlocked(s) ==
  admitFrom(s, 1)

\* the admission loop of Restaurant.simulateStep
RECURSIVE admitLoop(_)
admitLoop(s) ==
  IF Len(s.queue) = 0 THEN [s EXCEPT !.returned = "void"]
  ELSE LET nextParty == Head(s.queue)
           t == findAvailableTable(s.patrons, getSize(nextParty))
       IN  IF t # undefined
             THEN LET shifted == [s EXCEPT !.queue = Tail(@),
                                     !.admitted = Append(@, t)]
                      n == seatParty(shifted, nextParty)
                  IN  IF n.thrown # "" THEN n ELSE admitLoop(n)
             ELSE [s EXCEPT !.returned = "void"]

\* simulateStep that evicts before it advances the clock
simulateStep_evictsFirst(s, timeStep) ==
  admitLoop([evictLoop(s, 1) EXCEPT !.time = @ + timeStep])

\* simulateStep that admits before it evicts
simulateStep_admitsFirst(s, timeStep) ==
  evictLoop(admitLoop([s EXCEPT !.time = @ + timeStep]), 1)

\* Restaurant.simulateStep
simulateStep(s, timeStep) ==
  admitLoop(evictLoop([s EXCEPT !.time = @ + timeStep], 1))

(***************************************************************************)
(* Operations as actions.                                                  *)
(***************************************************************************)
\* writes a transformed record back to the program state
Write(s, op) ==
  /\ patrons' = s.patrons
  /\ sitting_at_table' = s.sitting
  /\ waitingQueue' = s.queue
  /\ currentTime' = s.time
  /\ seatedSince' = s.since
  /\ last' = [op |-> op, arg |-> s.arg, thrown |-> s.thrown, returned |-> s.returned,
              who |-> s.who, table |-> s.table, evicted |-> s.evicted, departed |-> s.departed,
              admitted |-> s.admitted]
  /\ UNCHANGED <<capacity, actualDiningTime, pool, made>>

\* an operation of the first Restaurant: the second is not involved
Commit(s, op) ==
  /\ Write(s, op)
  /\ UNCHANGED <<twin, tally>>

\* no object constructed yet
NoObject == [kind |-> "none"]

NotRunning == [active |-> FALSE, duration |-> 0, timeStep |-> 0]

Idle == ~running.active

\* every person under its own name
Identity == [p \in Persons |-> p]

\* the ways of giving the second Restaurant other Person objects with the same
\* actualDiningTime in place of the first one's
Renamings ==
  {f \in [Persons -> Persons] :
     /\ \A p, q \in Persons : f[p] = f[q] => p = q
     /\ \A p \in Persons : actualDiningTime[f[p]] = actualDiningTime[p]}

\* new Restaurant(tables) over freshly constructed, empty tables and persons,
\* and a second one whose persons are named by one of `renamings`
InitWith(scenes, renamings) ==
  /\ \E scene \in scenes : capacity = scene.capacity /\ pool = scene.pool
  /\ actualDiningTime \in DiningConfigs
  /\ patrons = [t \in DOMAIN capacity |-> <<>>]
  /\ sitting_at_table = [p \in Persons |-> undefined]
  /\ waitingQueue = <<>>
  /\ currentTime = 0
  /\ running = NotRunning
  /\ arrivalCount = 0
  /\ seatedSince = [p \in Persons |-> -1]
  /\ last = [op |-> "new", arg |-> 0, thrown |-> "", returned |-> "void",
             who |-> <<>>, table |-> undefined,
             evicted |-> {}, departed |-> {}, admitted |-> <<>>]
  /\ made = NoObject
  /\ tally = [arrived |-> {}, departed |-> {}, evicted |-> 0,
              totalPatronsServed |-> 0, time |-> 0]
  /\ \E rename \in renamings :
       twin = [patrons |-> [t \in DOMAIN capacity |-> <<>>],
               sitting |-> [p \in Persons |-> undefined],
               queue |-> <<>>, time |-> 0, thrown |-> "", rename |-> rename]

\* new Restaurant(tables) over freshly constructed, empty tables and persons
InitOf(scenes) == InitWith(scenes, {Identity})

Init == InitOf(Scenes)

\* Restaurant.addToWaitingQueue(new Party(members))
AddToWaitingQueue ==
  \E members \in pool :
    /\ Idle
    /\ arrivalCount < MaxArrivals
    /\ arrivalCount' = arrivalCount + 1
    /\ Commit(addToWaitingQueue(Here, [members |-> members,
                                         arrival |-> arrivalCount + 1]),
              "addToWaitingQueue")
    /\ UNCHANGED running

\* Restaurant.findAvailableTable(partySize), called by a client
FindAvailableTable ==
  \E partySize \in 0..3 :
    /\ Idle
    /\ Commit([Here EXCEPT !.table = findAvailableTable(patrons, partySize),
                           !.arg = partySize, !.returned = "table"],
              "findAvailableTable")
    /\ UNCHANGED <<running, arrivalCount>>

\* Restaurant.seatParty(party), called by a client
SeatParty ==
  \E members \in pool :
    /\ Idle
    /\ Commit(seatParty([Here EXCEPT !.who = members],
                        [members |-> members, arrival |-> 0]), "seatParty")
    /\ UNCHANGED <<running, arrivalCount>>

\* Restaurant.simulateStep(timeStep), called by a client
SimulateStep ==
  \E timeStep \in TimeSteps :
    /\ Idle
    /\ currentTime + timeStep <= MaxTime
    /\ Commit(simulateStep(Here, timeStep), "simulateStep")
    /\ UNCHANGED <<running, arrivalCount>>

\* the while condition of runSimulation with <= for <
runSimulationTest_lessOrEqual(duration, timeStep, steps) ==
  IF currentTime <= duration
    THEN LET n == simulateStep(Here, timeStep)
         IN  /\ Commit([n EXCEPT !.arg = steps + 1], "simulateStep")
             /\ running' = IF n.thrown # "" THEN NotRunning
                            ELSE [active |-> TRUE, duration |-> duration,
                                  timeStep |-> timeStep]
    ELSE /\ Commit([Here EXCEPT !.arg = steps], "runSimulation")
         /\ running' = NotRunning

\* one evaluation of the while condition of Restaurant.runSimulation after
\* `steps` iterations: another simulateStep (whose exception leaves the call),
\* or the return
runSimulationTest(duration, timeStep, steps) ==
  IF currentTime < duration
    THEN LET n == simulateStep(Here, timeStep)
         IN  /\ Commit([n EXCEPT !.arg = steps + 1], "simulateStep")
             /\ running' = IF n.thrown # "" THEN NotRunning
                            ELSE [active |-> TRUE, duration |-> duration,
                                  timeStep |-> timeStep]
    ELSE /\ Commit([Here EXCEPT !.arg = steps], "runSimulation")
         /\ running' = NotRunning

\* Restaurant.runSimulation(duration, timeStep) is called: up to its first
\* simulateStep, or its immediate return
RunSimulation ==
  \E duration \in Durations, timeStep \in TimeSteps :
    /\ Idle
    /\ duration + timeStep - 1 <= MaxTime
    /\ runSimulationTest(duration, timeStep, 0)
    /\ UNCHANGED arrivalCount

\* the call of runSimulation in progress goes on: its next simulateStep, or
\* its return
RunSimulationLoop ==
  /\ running.active
  /\ runSimulationTest(running.duration, running.timeStep, last.arg)
  /\ UNCHANGED arrivalCount

\* Restaurant.runSimulation(duration, timeStep) is entered, its while
\* condition not yet evaluated
runSimulationCall(duration, timeStep) ==
  /\ Idle
  /\ running' = [active |-> TRUE, duration |-> duration, timeStep |-> timeStep]
  /\ Commit(Here, "call runSimulation")
  /\ UNCHANGED arrivalCount

\* a client calls runSimulation with a positive time step
RunSimulationCall ==
  \E duration \in Durations, timeStep \in TimeSteps :
    /\ duration + timeStep - 1 <= MaxTime
    /\ runSimulationCall(duration, timeStep)

\* Restaurant.simulateStep(timeStep), called by a client with any time step
SimulateStepAny ==
  \E timeStep \in AnyTimeSteps :
    /\ Idle
    /\ currentTime + timeStep \in (0 - MaxTime)..MaxTime
    /\ Commit(simulateStep(Here, timeStep), "simulateStep")
    /\ UNCHANGED <<running, arrivalCount>>

\* a client calls runSimulation with any time step
RunSimulationCallAny ==
  \E duration \in Durations, timeStep \in AnyTimeSteps :
    /\ duration + timeStep - 1 <= MaxTime
    /\ runSimulationCall(duration, timeStep)

\* RunSimulationLoop, a loop whose time step is not positive being followed
\* for MaxTime iterations
RunSimulationLoopBounded ==
  /\ running.timeStep > 0 \/ last.arg < MaxTime
  /\ RunSimulationLoop

\* DiningTime.constructor
DiningTime(lowerBound, upperBound) ==
  [kind |-> "DiningTime", lowerBound |-> lowerBound, upperBound |-> upperBound]

\* interpolate with the upper bound as its base
interpolate_fromUpper(diningTime, u) ==
  diningTime.upperBound * Grid + u * (diningTime.upperBound - diningTime.lowerBound)

\* DiningTime.interpolate(randomizer), randomizer.float() being u / Grid; the
\* result in units of 1 / Grid
interpolate(diningTime, u) ==
  diningTime.lowerBound * Grid + u * (diningTime.upperBound - diningTime.lowerBound)

\* Table.constructor, patrons defaulting to []
Table(id, tableCapacity) ==
  [kind |-> "Table", id |-> id, capacity |-> tableCapacity, patrons |-> <<>>]

\* Party.constructor
Party(members) ==
  [kind |-> "Party", members |-> members]

\* Person.constructor: one call of interpolate, with one sample
Person(id, diningTime, u) ==
  [kind |-> "Person", id |-> id, diningTime |-> diningTime, sample |-> u,
   actualDiningTime |-> interpolate(diningTime, u),
   sitting_at_table |-> undefined]

\* the client constructs an object; no constructor throws
Construct(object) ==
  /\ Idle
  /\ made' = object
  /\ UNCHANGED <<capacity, patrons, sitting_at_table, actualDiningTime, pool,
                 waitingQueue, currentTime, running, arrivalCount, seatedSince,
                 last, twin, tally>>

\* new DiningTime(lowerBound, upperBound)
NewDiningTime ==
  \E lowerBound \in 0..MaxTime, upperBound \in 0..MaxTime :
    Construct(DiningTime(lowerBound, upperBound))

\* new Table(id, capacity)
NewTable ==
  \E id \in 1..2, tableCapacity \in Capacities :
    Construct(Table(id, tableCapacity))

\* new Party(members)
NewParty ==
  \E members \in MemberLists :
    Construct(Party(members))

\* new Person(id, name, age, diningTime, randomizer) with the DiningTime
\* constructed just before
NewPerson ==
  \E id \in Persons, u \in 0..(Grid - 1) :
    /\ made.kind = "DiningTime"
    /\ Construct(Person(id, made, u))

\* the member list `members` with the second Restaurant's persons
Renamed(members) ==
  [i \in DOMAIN members |-> twin.rename[members[i]]]

\* the second Restaurant as the record the operations transform
TwinHere ==
  [Here EXCEPT !.patrons = twin.patrons, !.sitting = twin.sitting,
               !.queue = twin.queue, !.time = twin.time]

\* writes a transformed record back to the second Restaurant
TwinWrite(s) ==
  twin' = [twin EXCEPT !.patrons = s.patrons, !.sitting = s.sitting,
                       !.queue = s.queue, !.time = s.time, !.thrown = s.thrown]

\* both Restaurants are given a party of the same size and dining times
TwinAddToWaitingQueue ==
  \E members \in pool :
    /\ Idle
    /\ arrivalCount < MaxArrivals
    /\ arrivalCount' = arrivalCount + 1
    /\ Write(addToWaitingQueue(Here, [members |-> members,
                                        arrival |-> arrivalCount + 1]),
             "addToWaitingQueue")
    /\ TwinWrite(addToWaitingQueue(TwinHere, [members |-> Renamed(members),
                                                arrival |-> arrivalCount + 1]))
    /\ UNCHANGED <<running, tally>>

\* both Restaurants take a step of the same length
TwinSimulateStep ==
  \E timeStep \in TimeSteps :
    /\ Idle
    /\ currentTime + timeStep <= MaxTime
    /\ Write(simulateStep(Here, timeStep), "simulateStep")
    /\ TwinWrite(simulateStep(TwinHere, timeStep))
    /\ UNCHANGED <<running, arrivalCount, tally>>

\* the reduce of Restaurant.getWaitingPatronCount, from party i on
RECURSIVE sumSizes(_, _)
sumSizes(queue, i) ==
  IF i > Len(queue) THEN 0 ELSE getSize(queue[i]) + sumSizes(queue, i + 1)

\* Restaurant.getWaitingPatronCount
getWaitingPatronCount(s) == sumSizes(s.queue, 1)

\* Restaurant.getOccupiedTableCount
getOccupiedTableCount(s) ==
  Cardinality({t \in Tables : Len(s.patrons[t]) > 0})

\* the reduce of Restaurant.getTotalSeatedPatrons, from table i on
RECURSIVE sumPatrons(_, _)
sumPatrons(pat, i) ==
  IF i > Len(pat) THEN 0 ELSE Len(pat[i]) + sumPatrons(pat, i + 1)

\* Restaurant.getTotalSeatedPatrons
getTotalSeatedPatrons(s) == sumPatrons(s.patrons, 1)

\* a client calls one of the reporting accessors of Restaurant
GetWaitingQueue ==
  /\ Idle
  /\ Commit([Here EXCEPT !.arg = Len(waitingQueue), !.returned = "waitingQueue"],
            "getWaitingQueue")
  /\ UNCHANGED <<running, arrivalCount>>

GetWaitingPatronCount ==
  /\ Idle
  /\ Commit([Here EXCEPT !.arg = getWaitingPatronCount(Here), !.returned = "number"],
            "getWaitingPatronCount")
  /\ UNCHANGED <<running, arrivalCount>>

GetOccupiedTableCount ==
  /\ Idle
  /\ Commit([Here EXCEPT !.arg = getOccupiedTableCount(Here), !.returned = "number"],
            "getOccupiedTableCount")
  /\ UNCHANGED <<running, arrivalCount>>

GetTotalSeatedPatrons ==
  /\ Idle
  /\ Commit([Here EXCEPT !.arg = getTotalSeatedPatrons(Here), !.returned = "number"],
            "getTotalSeatedPatrons")
  /\ UNCHANGED <<running, arrivalCount>>

\* Table.addPatron(person), called by a client
AddPatron ==
  \E t \in Tables, person \in DirectPersons :
    /\ Idle
    /\ Commit(addPatron([Here EXCEPT !.who = <<person>>, !.table = t], t, person),
              "addPatron")
    /\ UNCHANGED <<running, arrivalCount>>

\* Table.emptyTable(), called by a client
EmptyTable ==
  \E t \in Tables :
    /\ Idle
    /\ Commit(emptyTable([Here EXCEPT !.table = t], t), "emptyTable")
    /\ UNCHANGED <<running, arrivalCount>>

\* Person.sitDown(table), called by a client
SitDown ==
  \E person \in DirectPersons, t \in Tables :
    /\ Idle
    /\ Commit(sitDown([Here EXCEPT !.who = <<person>>, !.table = t], person, t),
              "sitDown")
    /\ UNCHANGED <<running, arrivalCount>>

\* Person.leaveTable(table), called by a client
LeaveTable ==
  \E person \in DirectPersons, t \in Tables :
    /\ Idle
    /\ Commit(leaveTable([Here EXCEPT !.who = <<person>>, !.table = t], person, t),
              "leaveTable")
    /\ UNCHANGED <<running, arrivalCount>>

Next ==
  \/ AddToWaitingQueue
  \/ SeatParty
  \/ SimulateStep
  \/ RunSimulation
  \/ RunSimulationLoop

\* clients that call every operation of Restaurant
Spec == Init /\ [][Next]_vars

NextDriver ==
  \/ AddToWaitingQueue
  \/ SimulateStep
  \/ RunSimulation
  \/ RunSimulationLoop

\* a driver like main: parties are only enqueued, seating is left to the steps
SpecDriver == Init /\ [][NextDriver]_vars

NextFind ==
  \/ AddToWaitingQueue
  \/ SimulateStep
  \/ FindAvailableTable

\* a driver that also queries findAvailableTable between the steps
SpecFind == Init /\ [][NextFind]_vars

NextPublic ==
  \/ AddPatron
  \/ EmptyTable
  \/ SitDown
  \/ LeaveTable

\* clients that call the public operations of Table and Person themselves
SpecPublic == Init /\ [][NextPublic]_vars

NextSeating ==
  \/ AddToWaitingQueue
  \/ SeatParty
  \/ SimulateStep
  \/ AddPatron
  \/ SitDown

\* the run explored with clients that also seat persons directly
SeatingScenes ==
  { [capacity |-> <<1, 2>>, pool |-> { <<"p1">>, <<"p2", "p3">> }] }

\* clients that seat persons through the Restaurant and directly
SpecSeating == InitOf(SeatingScenes) /\ [][NextSeating]_vars

\* every party has distinct members and no person belongs to two parties
Disjoint(parties) ==
  /\ \A m \in parties : Cardinality(RangeOf(m)) = Len(m)
  /\ \A m, n \in parties : m # n => RangeOf(m) \cap RangeOf(n) = {}

NextDisjoint ==
  \/ AddToWaitingQueue
  \/ SeatParty
  \/ SimulateStep

\* clients of a Restaurant whose parties are pairwise disjoint
SpecDisjoint ==
  InitOf({scene \in Scenes : Disjoint(scene.pool)}) /\ [][NextDisjoint]_vars

NextRun ==
  \/ AddToWaitingQueue
  \/ SimulateStep
  \/ RunSimulationCall
  \/ RunSimulationLoop

\* the loop of a call in progress keeps running (one thread, nothing preempts
\* it): weak fairness of RunSimulationLoop, written out with running.active
\* for ENABLED <<RunSimulationLoop>>_vars (the action's only guard, and each of
\* its steps changes last or running)
LoopFairness ==
  []<>(~running.active) \/ []<><<RunSimulationLoop>>_vars

\* a driver whose runSimulation calls are followed from their entry
SpecRun == Init /\ [][NextRun]_vars /\ LoopFairness

NextAnyStep ==
  \/ AddToWaitingQueue
  \/ SimulateStepAny
  \/ RunSimulationCallAny
  \/ RunSimulationLoopBounded

\* a driver that passes negative, zero and positive time steps
SpecAnyStep == InitOf(SeatingScenes) /\ [][NextAnyStep]_vars

NextConstruct ==
  \/ NewDiningTime
  \/ NewTable
  \/ NewParty
  \/ NewPerson

\* a client constructing the objects it will hand to a Restaurant
SpecConstruct == Init /\ [][NextConstruct]_vars

NextTwin ==
  \/ TwinAddToWaitingQueue
  \/ TwinSimulateStep

\* two Restaurants with the same tables, fed the same arrivals and time steps
SpecTwin == InitWith(Scenes, Renamings) /\ [][NextTwin]_vars

NextReport ==
  \/ AddToWaitingQueue
  \/ SimulateStep
  \/ AddPatron
  \/ GetWaitingQueue
  \/ GetWaitingPatronCount
  \/ GetOccupiedTableCount
  \/ GetTotalSeatedPatrons

\* a driver that reads the reporting accessors, its tables being reachable by
\* clients that call Table.addPatron
SpecReport == InitOf(SeatingScenes) /\ [][NextReport]_vars

\* the number of persons at the tables in `emptied`, from table i on
RECURSIVE departures(_, _, _)
departures(pat, emptied, i) ==
  IF i > Len(pat) THEN 0
  ELSE (IF i \in emptied THEN Len(pat[i]) ELSE 0) + departures(pat, emptied, i + 1)

\* the run's tallies after a step that took the tables from `pat` to s and
\* after the parties in `arrivals` were enqueued
Tallied(pat, s, arrivals) ==
  [tally EXCEPT !.arrived = @ \cup arrivals,
                !.departed = @ \cup UNION {RangeOf(pat[t]) : t \in s.evicted},
                !.evicted = @ + departures(pat, s.evicted, 1)]

\* Restaurant.addToWaitingQueue(party) with a party that was not enqueued
\* before
AddToWaitingQueueOnce ==
  \E members \in pool \ tally.arrived :
    /\ Idle
    /\ arrivalCount' = arrivalCount + 1
    /\ Write(addToWaitingQueue(Here, [members |-> members,
                                        arrival |-> arrivalCount + 1]),
             "addToWaitingQueue")
    /\ tally' = Tallied(patrons, Here, {members})
    /\ UNCHANGED <<running, twin>>

\* Restaurant.simulateStep(timeStep), with the persons it evicts counted
SimulateStepTallied ==
  \E timeStep \in TimeSteps :
    /\ Idle
    /\ currentTime + timeStep <= MaxTime
    /\ LET s == simulateStep(Here, timeStep)
       IN  /\ Write(s, "simulateStep")
           /\ tally' = Tallied(patrons, s, {})
    /\ UNCHANGED <<running, arrivalCount, twin>>

NextTallied ==
  \/ AddToWaitingQueueOnce
  \/ SimulateStepTallied

\* a client that enqueues each of its pairwise disjoint parties once and
\* steps the simulation
SpecTallied ==
  InitOf({scene \in Scenes : Disjoint(scene.pool)}) /\ [][NextTallied]_vars

\* the time step of main, and its duration: the loop runs while
\* time <= duration
mainTimeStep == 1

mainDuration == MaxTime - mainTimeStep

\* one iteration of the for loop of main: the party generator gives a new
\* party of new persons or none, then the step is taken and the fall of the
\* seated count is added to totalPatronsServed
MainTick ==
  \E arrivals \in {{}} \cup {{m} : m \in {n \in pool \ tally.arrived : n # <<>>}} :
    /\ Idle
    /\ tally.time <= mainDuration
    /\ LET newParty == [members |-> CHOOSE m \in arrivals : TRUE,
                        arrival |-> arrivalCount + 1]
           queued == IF arrivals # {} THEN addToWaitingQueue(Here, newParty) ELSE Here
           seatedBefore == getTotalSeatedPatrons(queued)
           s == simulateStep(queued, mainTimeStep)
           seatedAfter == getTotalSeatedPatrons(s)
       IN  /\ s.thrown = ""
           /\ Write(s, "main")
           /\ tally' = [Tallied(patrons, s, arrivals) EXCEPT
                          !.totalPatronsServed =
                            IF seatedAfter < seatedBefore
                              THEN @ + (seatedBefore - seatedAfter) ELSE @,
                          !.time = @ + mainTimeStep]
    /\ arrivalCount' = arrivalCount + Cardinality(arrivals)
    /\ UNCHANGED <<running, twin>>

\* main, over tables and parties of the explored sizes
SpecMain ==
  InitOf({scene \in Scenes : Disjoint(scene.pool)}) /\ [][MainTick]_vars

(***************************************************************************)
(* Properties.                                                             *)
(***************************************************************************)
\* the number of times `person` occurs in the occupant list of table t
Occurrences(person, t) ==
  Cardinality({i \in DOMAIN patrons[t] : patrons[t][i] = person})

\* the last operation was a simulateStep (a client's, or one of runSimulation)
Stepped == last.op = "simulateStep"

\* C1: after every operation of Restaurant, a person's seated-at reference is
\* table t exactly when t's occupant list contains the person.
C1_SeatedIffListed ==
  \A p \in Persons, t \in Tables :
    (sitting_at_table[p] = t) <=> (p \in RangeOf(patrons[t]))

\* a step has emptied one table and seated a waiting party, and persons sit
C1_Witness ==
  /\ Stepped
  /\ last.evicted # {}
  /\ last.admitted # <<>>
  /\ \E p \in Persons : sitting_at_table[p] # undefined

\* C2: no table ever holds more occupants than its capacity, whether persons
\* are seated by the Restaurant or by direct addPatron and sitDown calls.
C2_WithinCapacity ==
  \A t \in Tables : Len(patrons[t]) <= capacity[t]

\* a table is full and one more person was just refused at it
C2_Witness ==
  /\ \/ last.op = "addPatron" /\ last.returned = "false"
     \/ last.op = "sitDown" /\ last.thrown = "table full"
  /\ \E t \in Tables : Len(patrons[t]) = capacity[t]

\* C3: a person is in the occupant list of at most one table, and at most
\* once in it, also when parties share a member or name a person twice.
C3_AtMostOneSeat ==
  \A p \in Persons :
    /\ \A t \in Tables : Occurrences(p, t) <= 1
    /\ \A t, u \in Tables : Occurrences(p, t) > 0 /\ Occurrences(p, u) > 0 => t = u

\* a party naming a seated person (again) was being seated, and was refused
C3_Witness ==
  /\ last.op \in {"simulateStep", "seatParty"}
  /\ last.thrown = "already sitting"
  /\ \E p \in Persons : sitting_at_table[p] # undefined

\* C4: the seating relation never changes on one side only: after any calls
\* of Table.addPatron, Table.emptyTable, Person.sitDown and Person.leaveTable
\* a person refers to table t exactly when t lists the person.
C4_BothSidesTogether ==
  \A p \in Persons :
    /\ sitting_at_table[p] # undefined => p \in RangeOf(patrons[sitting_at_table[p]])
    /\ \A t \in Tables : p \in RangeOf(patrons[t]) => sitting_at_table[p] = t

\* the transition is a simulateStep
Stepping == last'.op = "simulateStep"

\* table t is empty when the admission phase of the step being taken starts
EmptyAtAdmission(t) == patrons[t] = <<>> \/ t \in last'.evicted

\* the tables the admission phase of the step being taken can give to a
\* party of the given size
FreeFor(size) == {t \in Tables : EmptyAtAdmission(t) /\ capacity[t] >= size}

\* C5: head-of-line blocking: when no table that is empty in the admission
\* phase of a step has room for the party at the head of the queue, the step
\* seats nobody and leaves the queue as it was, whatever waits behind.
C5_HeadOfLineBlocking ==
  [][(Stepping /\ waitingQueue # <<>> /\ FreeFor(getSize(Head(waitingQueue))) = {})
       => /\ waitingQueue' = waitingQueue
          /\ last'.admitted = <<>>
          /\ \A t \in Tables : patrons'[t] = IF t \in last'.evicted THEN <<>> ELSE patrons[t]
          /\ \A p \in Persons : sitting_at_table'[p] \in {undefined, sitting_at_table[p]}]_vars

\* after a step the head party is still waiting for want of a table, while
\* the party behind it would fit a table that is empty
C5_Witness ==
  /\ Stepped
  /\ Len(waitingQueue) >= 2
  /\ ~ \E t \in Tables : patrons[t] = <<>> /\ capacity[t] >= getSize(waitingQueue[1])
  /\ \E t \in Tables : patrons[t] = <<>> /\ capacity[t] >= getSize(waitingQueue[2])
  /\ getSize(waitingQueue[2]) > 0

\* C6: the queue is first-in first-out: addToWaitingQueue appends at the tail
\* and changes nothing else, a step removes parties from the head only and
\* seats them in that order, no other operation touches the queue; so the
\* queue always is the latest arrivals, in arrival order.
C6_Fifo ==
  /\ [](\A i \in DOMAIN waitingQueue :
          waitingQueue[i].arrival = arrivalCount - Len(waitingQueue) + i)
  /\ [][/\ last'.op = "addToWaitingQueue" =>
             /\ \E members \in pool :
                  waitingQueue' = Append(waitingQueue, [members |-> members,
                                                        arrival |-> arrivalCount + 1])
             /\ UNCHANGED <<patrons, sitting_at_table, currentTime>>
        /\ Stepping =>
             LET k == Len(last'.admitted)
             IN  /\ k <= Len(waitingQueue)
                 /\ waitingQueue' = SubSeq(waitingQueue, k + 1, Len(waitingQueue))
                 /\ \A i \in 1..k : (i < k \/ last'.thrown = "") =>
                      \A p \in RangeOf(waitingQueue[i].members) :
                        sitting_at_table'[p] = last'.admitted[i]
        /\ last'.op \in {"seatParty", "runSimulation"} =>
             waitingQueue' = waitingQueue]_vars

\* a step has seated the two earliest parties and left the third waiting
C6_Witness ==
  /\ Stepped
  /\ Len(last.admitted) = 2
  /\ Len(waitingQueue) = 1
  /\ waitingQueue[1].arrival = 3

\* every occupant of table t is due at the clock value the step advances to
Due(t) == \A p \in RangeOf(patrons[t]) : currentTime' >= actualDiningTime[p]

\* C7: group departure: a step empties an occupied table exactly when the
\* advanced clock has reached the largest actualDiningTime at the table, and
\* then every occupant leaves; otherwise every occupant stays.
C7_GroupDeparture ==
  [][Stepping =>
       \A t \in Tables : patrons[t] # <<>> =>
         /\ t \in last'.evicted <=> Due(t)
         /\ Due(t) =>
              /\ RangeOf(patrons[t]) \subseteq last'.departed
              /\ t \notin RangeOf(last'.admitted) => patrons'[t] = <<>>
              /\ \A p \in RangeOf(patrons[t]) :
                   sitting_at_table'[p] = undefined \/ seatedSince'[p] = currentTime'
         /\ ~Due(t) =>
              /\ patrons'[t] = patrons[t]
              /\ RangeOf(patrons[t]) \cap last'.departed = {}
              /\ \A p \in RangeOf(patrons[t]) : sitting_at_table'[p] = t]_vars

\* two persons whose dining times differ have left one table in one step, at
\* the clock value of the larger dining time
C7_Witness ==
  /\ Stepped
  /\ Cardinality(last.evicted) = 1
  /\ \E p, q \in last.departed :
       actualDiningTime[p] < actualDiningTime[q] /\ actualDiningTime[q] = currentTime

\* C8: nobody is evicted before having been seated for their dining time: a
\* person seated at clock value s and evicted at clock value e has
\* e - s >= actualDiningTime.
C8_DinesFullDuration ==
  [][Stepping =>
       \A p \in last'.departed :
         currentTime' - seatedSince[p] >= actualDiningTime[p]]_vars

\* the members of the party are distinct persons, none of them seated when
\* the admission phase of the step being taken starts
Seatable(party) ==
  /\ \A i, j \in DOMAIN party.members : party.members[i] = party.members[j] => i = j
  /\ \A p \in RangeOf(party.members) :
       sitting_at_table[p] = undefined \/ sitting_at_table[p] \in last'.evicted

\* C9: same-tick reseating: when the first table in list order that can
\* take the head party in the admission phase is one the same step has just
\* emptied, the head party (of distinct, unseated persons) sits at that table
\* when the step ends.
C9_SameTickReseating ==
  [][(Stepping /\ waitingQueue # <<>>) =>
       LET head == Head(waitingQueue)
           free == FreeFor(getSize(head))
       IN  \A t \in free :
             ((\A u \in free : t <= u) /\ t \in last'.evicted /\ Seatable(head)
               /\ getSize(head) > 0)
             => /\ last'.admitted # <<>>
                /\ last'.admitted[1] = t
                /\ patrons'[t] = head.members
                /\ \A p \in RangeOf(head.members) : sitting_at_table'[p] = t
                /\ head \notin RangeOf(waitingQueue')]_vars

\* a step has emptied a table and seated the head party at that same table
C9_Witness ==
  /\ Stepped
  /\ last.thrown = ""
  /\ last.admitted # <<>>
  /\ last.admitted[1] \in last.evicted
  /\ patrons[last.admitted[1]] # <<>>

\* table t is completely empty and has room for a party of the given size
Qualifies(t, size) == patrons[t] = <<>> /\ capacity[t] >= size

\* C10: findAvailableTable(n) returns the first table in list order that is
\* empty with capacity >= n, nothing when there is none, and changes nothing.
C10_FirstFit ==
  /\ [](last.op = "findAvailableTable" =>
          IF \E t \in Tables : Qualifies(t, last.arg)
            THEN /\ last.table \in Tables
                 /\ Qualifies(last.table, last.arg)
                 /\ \A u \in Tables : Qualifies(u, last.arg) => last.table <= u
            ELSE last.table = undefined)
  /\ [][last'.op = "findAvailableTable" =>
          UNCHANGED <<capacity, patrons, sitting_at_table, waitingQueue, currentTime>>]_vars

\* the table returned is the first that qualifies although a later one of
\* smaller capacity qualifies too
C10_Witness ==
  /\ last.op = "findAvailableTable"
  /\ last.table # undefined
  /\ \E u \in Tables :
       Qualifies(u, last.arg) /\ u > last.table /\ capacity[u] < capacity[last.table]


\* C11: with pairwise disjoint parties, the occupants of any one table are
\* all members of one single party, and a table that has occupants is given
\* no one else: its occupant list changes only by the table being emptied.
C11_PartiesNeverShare ==
  /\ [](\A t \in Tables :
          patrons[t] # <<>> =>
            \E m \in pool : RangeOf(patrons[t]) \subseteq RangeOf(m))
  /\ [][\A t \in Tables :
          (patrons[t] # <<>> /\ t \notin last'.evicted) =>
            patrons'[t] = patrons[t]]_vars

\* a step left a party waiting while a table with a free seat holds another
\* party and a second table is occupied too
C11_Witness ==
  /\ Stepped
  /\ waitingQueue # <<>>
  /\ \E t, u \in Tables :
       /\ t # u
       /\ patrons[t] # <<>> /\ Len(patrons[t]) < capacity[t]
       /\ patrons[u] # <<>>

\* C12: seatParty(party) returns false, throwing nothing, when no table
\* without occupants has capacity >= the party's size, and the call then
\* leaves the queue, every occupant list and every seated-at reference as
\* they were.
C12_CapacityRejection ==
  [][(last'.op = "seatParty" /\ ~ \E t \in Tables : Qualifies(t, Len(last'.who)))
       => /\ last'.returned = "false"
          /\ last'.thrown = ""
          /\ UNCHANGED <<waitingQueue, patrons, sitting_at_table, currentTime>>]_vars

\* seatParty refused a party although a table is empty: the empty table is
\* too small and the larger one is occupied
C12_Witness ==
  /\ last.op = "seatParty"
  /\ last.returned = "false"
  /\ \E t, u \in Tables :
       /\ patrons[t] = <<>> /\ capacity[t] < Len(last.who)
       /\ patrons[u] # <<>> /\ capacity[u] >= Len(last.who)

\* C13: when seatParty(party) returns true, every member of the party is
\* seated at one table, the first table in list order that was empty with
\* capacity >= the party's size before the call (what findAvailableTable
\* selects); that table's occupants are exactly the party's members, in
\* order, and no other table, no other person's reference and not the queue
\* changes.
C13_SeatsAtSelectedTable ==
  [][(last'.op = "seatParty" /\ last'.returned = "true")
       => \E t \in Tables :
            /\ Qualifies(t, Len(last'.who))
            /\ \A u \in Tables : Qualifies(u, Len(last'.who)) => t <= u
            /\ patrons'[t] = last'.who
            /\ \A p \in RangeOf(last'.who) : sitting_at_table'[p] = t
            /\ \A p \in Persons \ RangeOf(last'.who) :
                 sitting_at_table'[p] = sitting_at_table[p]
            /\ \A u \in Tables \ {t} : patrons'[u] = patrons[u]
            /\ UNCHANGED <<waitingQueue, currentTime>>]_vars

\* seatParty seated a party of two distinct persons at the second table,
\* the first being occupied by someone else
C13_Witness ==
  /\ last.op = "seatParty"
  /\ last.returned = "true"
  /\ Cardinality(RangeOf(last.who)) = 2
  /\ \E t \in Tables :
       /\ t > 1
       /\ patrons[t] = last.who
       /\ \A p \in RangeOf(last.who) : sitting_at_table[p] = t
  /\ patrons[1] # <<>>

\* C14: every call of runSimulation executes at least one simulateStep
\* before it returns, also runSimulation(0, timeStep) on a fresh restaurant.
C14_AtLeastOneStep ==
  last.op = "runSimulation" => last.arg >= 1

\* C15: for timeStep > 0 and every duration, a call of runSimulation ends;
\* when it returns currentTime >= duration, and if it took a step (the clock
\* was below duration at the call) currentTime < duration + timeStep.
C15_TerminatesWithinOneStep ==
  /\ running.active ~> ~running.active
  /\ [][(running.active /\ last'.op = "runSimulation")
          => /\ currentTime' >= running.duration
             /\ last'.arg = 0 => currentTime' = currentTime
             /\ last'.arg >= 1 =>
                  currentTime' < running.duration + running.timeStep]_vars

\* a call of runSimulation has returned after two steps or more
C15_Witness ==
  /\ last.op = "runSimulation"
  /\ last.arg >= 2
  /\ ~running.active

\* C16: simulateStep(timeStep) with timeStep <= 0, called by a client or by
\* runSimulation, fails with an error and leaves the clock, the tables and
\* the queue as they were (so a runSimulation with such a time step ends at
\* its first step). A step that does not move the clock forward is one with
\* timeStep <= 0.
C16_NonPositiveStepRejected ==
  [][(last'.op = "simulateStep" /\ currentTime' <= currentTime)
       => /\ last'.thrown # ""
          /\ UNCHANGED <<currentTime, patrons, waitingQueue>>]_vars

\* C17: the clock starts at 0 and no operation, whatever its arguments,
\* makes currentTime smaller.
C17_ClockMonotonic ==
  /\ [](last.op = "new" => currentTime = 0)
  /\ [][currentTime' >= currentTime]_vars

\* C18: sitDown(table) on a person whose seated-at reference is set fails
\* with the error "already sitting" and changes no occupant list and no
\* reference.
C18_AlreadySeatedRejected ==
  [][(last'.op = "sitDown" /\ sitting_at_table[last'.who[1]] # undefined)
       => /\ last'.thrown = "already sitting"
          /\ UNCHANGED <<patrons, sitting_at_table, waitingQueue, currentTime>>]_vars

\* a seated person was refused at another table that had a free seat
C18_Witness ==
  /\ last.op = "sitDown"
  /\ last.thrown = "already sitting"
  /\ sitting_at_table[last.who[1]] \notin {undefined, last.table}
  /\ Len(patrons[last.table]) < capacity[last.table]

\* C19: addPatron(person) appends the person and returns true exactly when
\* the table has fewer occupants than its capacity; on a full table it
\* returns false and the occupants are unchanged; sitDown of an unseated
\* person on a full table throws "table full" and sets no reference.
C19_AddPatronIffBelowCapacity ==
  [][/\ last'.op = "addPatron" =>
          /\ IF Len(patrons[last'.table]) < capacity[last'.table]
               THEN /\ last'.returned = "true"
                    /\ patrons'[last'.table] =
                         Append(patrons[last'.table], last'.who[1])
               ELSE /\ last'.returned = "false"
                    /\ patrons'[last'.table] = patrons[last'.table]
          /\ \A u \in Tables \ {last'.table} : patrons'[u] = patrons[u]
          /\ UNCHANGED sitting_at_table
     /\ (/\ last'.op = "sitDown"
         /\ sitting_at_table[last'.who[1]] = undefined
         /\ Len(patrons[last'.table]) >= capacity[last'.table])
          => /\ last'.thrown = "table full"
             /\ UNCHANGED <<patrons, sitting_at_table>>]_vars

\* an unseated person called sitDown on a full table and was refused
C19_Witness ==
  /\ last.op = "sitDown"
  /\ last.thrown = "table full"
  /\ sitting_at_table[last.who[1]] = undefined
  /\ Len(patrons[last.table]) = capacity[last.table]

\* C20: a departure that does not match the seating relation is reported as
\* an error: leaveTable(table) of a person not seated at that table, and
\* emptyTable of a table listing a person whose reference is not that table.
C20_MismatchedDepartureReported ==
  [][/\ (last'.op = "leaveTable" /\ sitting_at_table[last'.who[1]] # last'.table)
          => last'.thrown # ""
     /\ (/\ last'.op = "emptyTable"
         /\ \E p \in RangeOf(patrons[last'.table]) :
              sitting_at_table[p] # last'.table)
          => last'.thrown # ""]_vars

\* C21: after Table.emptyTable() returns, the table's occupant list is
\* empty, every person that was in the list before the call has an empty
\* seated-at reference, and the occupant lists of all other tables and the
\* references of their occupants are unchanged.
C21_EmptyTableFrame ==
  [][last'.op = "emptyTable"
       => /\ last'.thrown = ""
          /\ patrons'[last'.table] = <<>>
          /\ \A p \in RangeOf(patrons[last'.table]) :
               sitting_at_table'[p] = undefined
          /\ \A u \in Tables \ {last'.table} :
               /\ patrons'[u] = patrons[u]
               /\ \A p \in RangeOf(patrons[u]) :
                    sitting_at_table'[p] = sitting_at_table[p]]_vars

\* C22: constructing a Table with capacity <= 0 fails, so no Table object
\* with a non-positive capacity exists.
C22_PositiveCapacity ==
  made.kind = "Table" => made.capacity > 0

\* C23: constructing a Party with zero members fails, so no Party object
\* without members exists (and none can be queued or admitted).
C23_NoEmptyParty ==
  made.kind = "Party" => Len(made.members) >= 1

\* C24: constructing a DiningTime with lowerBound > upperBound fails, so
\* every DiningTime object has lowerBound <= upperBound.
C24_OrderedBounds ==
  made.kind = "DiningTime" => made.lowerBound <= made.upperBound

\* C25: a Person's actualDiningTime is interpolate of its DiningTime at the
\* one sample u of its construction, lowerBound + u * (upperBound -
\* lowerBound); for lowerBound <= upperBound it lies between the bounds, and
\* it is lowerBound when the bounds are equal (values in units of 1 / Grid).
C25_InterpolateWithinBounds ==
  made.kind = "Person" =>
    LET lower == made.diningTime.lowerBound
        upper == made.diningTime.upperBound
        r == made.actualDiningTime
    IN  /\ r = Grid * lower + made.sample * (upper - lower)
        /\ lower <= upper => (Grid * lower <= r /\ r <= Grid * upper)
        /\ lower = upper => r = Grid * lower

\* a Person was constructed from a DiningTime with distinct, ordered bounds
\* and the largest sample
C25_Witness ==
  /\ made.kind = "Person"
  /\ made.diningTime.lowerBound < made.diningTime.upperBound
  /\ made.sample = Grid - 1
  /\ made.actualDiningTime > Grid * made.diningTime.lowerBound

\* C26: two restaurants with the same tables, fed the same sequence of
\* parties (same sizes and actualDiningTimes, person for person) and the
\* same time steps, are in the same state after every operation: same clock,
\* same queue, same occupants per table and same references, person for
\* person, and the same error if any.
C26_Deterministic ==
  /\ twin.time = currentTime
  /\ twin.thrown = last.thrown
  /\ \A t \in Tables : twin.patrons[t] = Renamed(patrons[t])
  /\ \A p \in Persons : twin.sitting[twin.rename[p]] = sitting_at_table[p]
  /\ Len(twin.queue) = Len(waitingQueue)
  /\ \A i \in DOMAIN waitingQueue :
       /\ twin.queue[i].members = Renamed(waitingQueue[i].members)
       /\ twin.queue[i].arrival = waitingQueue[i].arrival

\* the two restaurants hold different persons, and a step has both evicted
\* and admitted
C26_Witness ==
  /\ Stepped
  /\ last.evicted # {}
  /\ last.admitted # <<>>
  /\ \E t \in Tables : twin.patrons[t] # patrons[t]

\* the operation just done is a reporting accessor
Reporting ==
  last'.op \in {"getWaitingQueue", "getWaitingPatronCount",
                "getOccupiedTableCount", "getTotalSeatedPatrons"}

\* C27: the reporting accessors change no state, getTotalSeatedPatrons is
\* the number of persons whose seated-at reference is set,
\* getOccupiedTableCount the number of tables with an occupant, and
\* getWaitingPatronCount the sum of the sizes of the queued parties.
C27_AccessorsConsistent ==
  [][Reporting =>
       /\ UNCHANGED <<patrons, sitting_at_table, waitingQueue, currentTime>>
       /\ last'.op = "getTotalSeatedPatrons" =>
            last'.arg = Cardinality({p \in Persons : sitting_at_table[p] # undefined})
       /\ last'.op = "getOccupiedTableCount" =>
            last'.arg = Cardinality({t \in Tables : patrons[t] # <<>>})
       /\ last'.op = "getWaitingPatronCount" =>
            last'.arg = sumSizes(waitingQueue, 1)]_vars

\* C28: simulateStep(timeStep) adds exactly timeStep to currentTime, evicts
\* exactly the occupied tables that are due at the advanced clock value, and
\* admits afterwards: a table that received a party in the step holds that
\* party when the step returns, whatever the party's dining times.
C28_PhaseOrder ==
  [][Stepping =>
       /\ currentTime' - currentTime \in TimeSteps
       /\ last'.evicted =
            {t \in Tables : /\ patrons[t] # <<>>
                            /\ currentTime' >= maxDiningTime(patrons[t])}
       /\ \A p \in last'.departed : sitting_at_table[p] \in last'.evicted
       /\ \A i \in DOMAIN last'.admitted :
            /\ patrons[last'.admitted[i]] = <<>> \/ last'.admitted[i] \in last'.evicted
            /\ \A p \in RangeOf(patrons'[last'.admitted[i]]) :
                 /\ sitting_at_table'[p] = last'.admitted[i]
                 /\ seatedSince'[p] = currentTime']_vars

\* a step seated a party that was already due when it sat down, at a table
\* the same step had emptied, and the party is still there
C28_Witness ==
  /\ Stepped
  /\ last.thrown = ""
  /\ \E i \in DOMAIN last.admitted :
       /\ last.admitted[i] \in last.evicted
       /\ patrons[last.admitted[i]] # <<>>
       /\ currentTime >= maxDiningTime(patrons[last.admitted[i]])

\* C29: when simulateStep returns normally, the waiting queue is empty or no
\* table is both without occupants and of capacity >= the size of the party
\* at the head of the queue.
C29_AdmissionExhaustive ==
  (Stepped /\ last.thrown = "") =>
    \/ waitingQueue = <<>>
    \/ \A t \in Tables : ~Qualifies(t, getSize(Head(waitingQueue)))

\* a step admitted two parties and left a third waiting
C29_Witness ==
  /\ Stepped
  /\ last.thrown = ""
  /\ Len(last.admitted) >= 2
  /\ waitingQueue # <<>>

\* C30: when seating a party fails partway, no table and no seated-at
\* reference is changed by the failed seating (no member is left seated, the
\* chosen table stays empty), and in simulateStep the party that failed is
\* still in the waiting queue: the queue lost only the parties seated before.
C30_AllOrNothing ==
  [][/\ (last'.op = "seatParty" /\ last'.thrown # "")
          => UNCHANGED <<patrons, sitting_at_table>>
     /\ (Stepping /\ last'.thrown # "")
          => /\ Len(waitingQueue) - Len(waitingQueue') = Len(last'.admitted) - 1
             /\ patrons'[last'.admitted[Len(last'.admitted)]] = <<>>]_vars

\* C31: with steps of positive length taken for ever, a queued party that
\* fits some table (as do the parties ahead of it) is eventually removed from
\* the queue and seated. Checked in what a finite run shows of it: every
\* party that a step removes from the queue has all its members seated when
\* the step ends.
C31_EventuallySeated ==
  [][Stepping =>
       \A i \in 1..(Len(waitingQueue) - Len(waitingQueue')) :
         \A p \in RangeOf(waitingQueue[i].members) :
           sitting_at_table'[p] # undefined]_vars

\* the party's size exceeds the capacity of every table
Oversize(party) ==
  \A t \in Tables : capacity[t] < getSize(party)

\* C32: a queued party larger than every table is never removed from the
\* queue and never seated, and while it is at the head of the queue no step
\* seats anyone, whatever tables are empty.
C32_PermanentBlocking ==
  [][/\ \A i \in DOMAIN waitingQueue :
          Oversize(waitingQueue[i]) =>
            /\ \E j \in 1..i : /\ j \in DOMAIN waitingQueue'
                               /\ waitingQueue'[j] = waitingQueue[i]
            /\ \A t \in Tables : patrons'[t] # waitingQueue[i].members
     /\ (waitingQueue # <<>> /\ Oversize(Head(waitingQueue))) =>
          /\ last'.admitted = <<>>
          /\ Head(waitingQueue') = Head(waitingQueue)
          /\ \A p \in Persons :
               sitting_at_table'[p] \in {undefined, sitting_at_table[p]}]_vars

\* a party larger than every table has been at the head for two steps, a
\* later party waits behind it, and every table is empty
C32_Witness ==
  /\ Stepped
  /\ last.arg >= 2 \/ currentTime >= 2
  /\ Len(waitingQueue) >= 2
  /\ Oversize(Head(waitingQueue))
  /\ \A t \in Tables : patrons[t] = <<>>
  /\ last.evicted # {}

\* C34: after any sequence of addToWaitingQueue, seatParty and simulateStep
\* calls, no person is both a member of a party in the waiting queue and
\* seated at a table.
C34_ConsumedByAdmission ==
  \A i \in DOMAIN waitingQueue :
    \A p \in RangeOf(waitingQueue[i].members) :
      sitting_at_table[p] = undefined
\* the persons of the parties enqueued so far
Enqueued == UNION {RangeOf(m) : m \in tally.arrived}

\* the person is a member of a queued party
Waiting(p) == \E i \in DOMAIN waitingQueue : p \in RangeOf(waitingQueue[i].members)

\* the number of places the person takes at the tables
Places(p) ==
  Cardinality({t \in Tables : Occurrences(p, t) > 0})
    + Cardinality({t \in Tables : Occurrences(p, t) > 1})

\* C33: for pairwise disjoint parties, each enqueued once and driven only
\* through addToWaitingQueue and simulateStep, every person enqueued so far
\* is in exactly one of the conditions waiting (member of a queued party),
\* seated (once, at one table) and departed (evicted), and the number of
\* persons enqueued is getWaitingPatronCount + getTotalSeatedPatrons + the
\* number of persons evicted so far.
C33_Conservation ==
  /\ \A p \in Enqueued :
       /\ Waiting(p) \/ Places(p) > 0 \/ p \in tally.departed
       /\ ~(Waiting(p) /\ Places(p) > 0)
       /\ ~(Waiting(p) /\ p \in tally.departed)
       /\ ~(Places(p) > 0 /\ p \in tally.departed)
       /\ Places(p) <= 1
  /\ Cardinality(Enqueued) =
       getWaitingPatronCount(Here) + getTotalSeatedPatrons(Here) + tally.evicted

\* a step has left persons in each of the three conditions
C33_Witness ==
  /\ Stepped
  /\ \E p \in Enqueued : Waiting(p)
  /\ \E p \in Enqueued : Places(p) = 1
  /\ tally.departed # {}
  /\ tally.evicted = Cardinality(tally.departed)

\* C35: when main's loop has ended, totalPatronsServed is the number of
\* persons evicted from tables during the run.
C35_ServedCountsEvictions ==
  tally.time > mainDuration => tally.totalPatronsServed = tally.evicted
====
